---------------------------- MODULE Spec2Model ----------------------------
(***************************************************************************)
(* State-machine model of the ethereum-python-flask use cases:              *)
(*   GenerateAddressesUseCase        (provision)                            *)
(*   ValidateTransactionUseCase      (validate)                             *)
(*   CreateTransactionUseCase        (create)                               *)
(*   UpdateTransactionStatusUseCase  (reconcile)                            *)
(* together with the SQLAlchemy repositories they write to and the          *)
(* IBlockchainService port they read from.  Every call of a use case is a   *)
(* small process whose steps are the points where the code touches the      *)
(* store or the chain, so that concurrent requests interleave there.        *)
(***************************************************************************)
EXTENDS Integers, Sequences, FiniteSets, TLC

(***************************************************************************)
(* Bounds of the model                                                      *)
(***************************************************************************)
\* the chain is observed up to height MaxHeight
MaxHeight == 14
\* number of keypairs the chain client generates over a run
MaxAddrs == 1
\* number of create calls over a run
MaxCreated == 2
\* the largest count a provision request asks for
MaxCount == 3

(***************************************************************************)
(* Program constants                                                        *)
(***************************************************************************)
MIN_CONFIRMATIONS == 12
TOKEN_DECIMALS == 18

\* the block in which the transactions under validation are mined
MinedBlocks == {1}

\* the chain is observed from the height at which a transaction of block 1
\* is two blocks short of the confirmation threshold
StartHeight == MIN_CONFIRMATIONS - 1

Hashes == {"h1", "h2"}
EmptyHash == ""
VCalls == {"v1", "v2"}
PCalls == {"p1"}

\* the i-th keypair produced by Account.create()
AddrName == <<"a1", "a2", "a3", "a4">>
KeyName == <<"k1", "k2", "k3", "k4">>

TRANSFER_EVENT_TOPIC == "keccak(Transfer(address,address,uint256))"
OTHER_EVENT_TOPIC == "keccak(Approval(address,address,uint256))"

\* an empty dict / None returned by a port
Absent == [present |-> FALSE]

(***************************************************************************)
(* Strings that render numbers.  str(int) and str(float) are kept apart     *)
(* from the numbers they render.                                            *)
(***************************************************************************)
StrOfInt(n) == [fmt |-> "int", digits |-> ToString(n)]
StrOfFloatDiv(raw, decimals) == [fmt |-> "float", num |-> raw, exp10 |-> decimals]

(***************************************************************************)
(* Transactions the chain may hold.  The content of a transaction is        *)
(* fixed by its hash; the logs are those its execution emits.               *)
(***************************************************************************)
TransferLog(to, n) ==
    [topics |-> <<TRANSFER_EVENT_TOPIC, "topic:from", to>>, data |-> [hex |-> TRUE, n |-> n]]
ApprovalLog ==
    [topics |-> <<OTHER_EVENT_TOPIC, "topic:from", "a1">>, data |-> [hex |-> TRUE, n |-> 1]]
\* a Transfer log with a missing topic (decoding raises IndexError)
ShortTransferLog ==
    [topics |-> <<TRANSFER_EVENT_TOPIC>>, data |-> [hex |-> TRUE, n |-> 1]]
\* a Transfer log whose data is not a hexadecimal string (int(data, 16) raises)
BadDataTransferLog ==
    [topics |-> <<TRANSFER_EVENT_TOPIC, "topic:from", "a1">>, data |-> [hex |-> FALSE, n |-> 0]]
NoTopicsLog ==
    [topics |-> <<>>, data |-> [hex |-> TRUE, n |-> 1]]

\* bytes of the call data: 48 120 is b"0x", 169 is the first byte of the
\* transfer(address,uint256) selector a9059cbb
TxShapes ==
    { [to |-> "a1",  value |-> 5, input |-> <<>>,        logs |-> <<>>],
      [to |-> "tok", value |-> 0, input |-> <<169, 5>>,  logs |-> <<TransferLog("a2", 7)>>],
      [to |-> "tok", value |-> 5, input |-> <<169>>,
           logs |-> <<ApprovalLog, ShortTransferLog, TransferLog("a1", 3), TransferLog("ext", 4)>>],
      [to |-> "a1",  value |-> 0, input |-> <<>>,        logs |-> <<BadDataTransferLog, NoTopicsLog>>],
      [to |-> "a1",  value |-> 5, input |-> <<48, 120>>, logs |-> <<>>] }

ReceiptStatuses == {0, 1}
GasChoices == {[gasUsed |-> 3, effectiveGasPrice |-> 7]}

VARIABLES
    height,        \* w3.eth.block_number
    world,         \* content of the transaction of each hash
    tx_known,      \* hashes for which the node returns transaction details
    receipts,      \* receipt of each hash, or Absent
    generated,     \* number of keypairs generated so far
    addresses,     \* table addresses
    validated,     \* table validated_transactions
    pcall,         \* calls of GenerateAddressesUseCase.execute
    vcall,         \* calls of ValidateTransactionUseCase.execute
    gate_passed,   \* history: hashes for which a call observed the gate's conditions
    created,       \* table created_transactions
    ccall,         \* calls of CreateTransactionUseCase.execute
    rcall,         \* calls of UpdateTransactionStatusUseCase.execute
    net_log        \* history: the sign and broadcast calls of create, in order

chainVars == <<height, world, tx_known, receipts>>
provVars == <<generated, addresses, pcall>>
valVars == <<validated, vcall, gate_passed>>
outVars == <<created, ccall, rcall, net_log>>
vars == <<height, world, tx_known, receipts, generated, addresses, pcall,
          validated, vcall, gate_passed, created, ccall, rcall, net_log>>

(***************************************************************************)
(* IBlockchainService, as the use cases see it                              *)
(***************************************************************************)
get_transaction_details(h) ==
    IF h \in tx_known
    THEN [present |-> TRUE, to |-> world[h].to, value |-> world[h].value,
          input |-> world[h].input]
    ELSE Absent

get_transaction_receipt(h) == IF h \in Hashes THEN receipts[h] ELSE Absent

get_current_block_number == height

generate_new_address(i) == [address |-> AddrName[i], private_key |-> KeyName[i]]

\* takes the amount of a Transfer log with undecodable data to be zero
decode_erc20_transfer_log_ZeroOnBadData(log) ==
    IF Len(log.topics) >= 3 /\ log.topics[1] = TRANSFER_EVENT_TOPIC
    THEN [present |-> TRUE, asset |-> "ERC-20 Token", to_address |-> log.topics[3],
          value |-> StrOfFloatDiv(IF log.data.hex THEN log.data.n ELSE 0,
                                  TOKEN_DECIMALS)]
    ELSE Absent

decode_erc20_transfer_log(log) ==
    IF Len(log.topics) > 0 /\ log.topics[1] = TRANSFER_EVENT_TOPIC
    THEN IF Len(log.topics) >= 3 /\ log.data.hex
         THEN [present |-> TRUE, asset |-> "ERC-20 Token", to_address |-> log.topics[3],
               value |-> StrOfFloatDiv(log.data.n, TOKEN_DECIMALS)]
         ELSE Absent
    ELSE Absent


(***************************************************************************)
(* Chain behaviour: the node learns and forgets transactions, receipts      *)
(* appear, change under a reorganisation and disappear, blocks are added.   *)
(***************************************************************************)
\* hashes whose chain state changes during a run
LiveHashes == {"h1"}

ReceiptsOf(h) ==
    { [present |-> TRUE, status |-> s, blockNumber |-> b, gasUsed |-> g.gasUsed,
       effectiveGasPrice |-> g.effectiveGasPrice, logs |-> world[h].logs] :
         s \in ReceiptStatuses, b \in MinedBlocks, g \in GasChoices }

ChainTx(h) ==
    /\ tx_known' = IF h \in tx_known THEN tx_known \ {h} ELSE tx_known \cup {h}
    /\ UNCHANGED <<height, world, receipts, provVars, valVars, outVars>>

ChainReceipt(h) ==
    /\ \E r \in ReceiptsOf(h) \cup {Absent} :
          /\ r # receipts[h]
          /\ receipts' = [receipts EXCEPT ![h] = r]
    /\ UNCHANGED <<height, world, tx_known, provVars, valVars, outVars>>

ChainAdvance ==
    /\ \E n \in (height + 1)..MaxHeight : height' = n
    /\ UNCHANGED <<world, tx_known, receipts, provVars, valVars, outVars>>

(***************************************************************************)
(* SQLAlchemyAddressRepository                                              *)
(***************************************************************************)
AddressUnique(rows, a) == \A i \in 1..Len(rows) : rows[i].address # a.address

address_save(rows, a) ==
    Append(rows, [id |-> Len(rows) + 1, address |-> a.address, private_key |-> a.private_key])

address_find_by_address(rows, a) ==
    IF \E i \in 1..Len(rows) : rows[i].address = a
    THEN [present |-> TRUE,
          row |-> rows[CHOOSE i \in 1..Len(rows) :
                          /\ rows[i].address = a
                          /\ \A j \in 1..(i - 1) : rows[j].address # a]]
    ELSE Absent

address_get_all(rows) == rows

(***************************************************************************)
(* SQLAlchemyValidatedTransactionRepository                                 *)
(***************************************************************************)
ValidatedUnique_NoConstraint(rows, tx) == TRUE

\* unique=True on validated_transactions.tx_hash
ValidatedUnique(rows, tx) == \A i \in 1..Len(rows) : rows[i].tx_hash # tx.tx_hash

validated_save(rows, tx) ==
    Append(rows, [id |-> Len(rows) + 1, tx_hash |-> tx.tx_hash, asset |-> tx.asset,
                  to_address |-> tx.to_address, value |-> tx.value,
                  is_valid |-> tx.is_valid])

validated_find_by_hash_Never(rows, h) == Absent

validated_find_by_hash(rows, h) ==
    IF \E i \in 1..Len(rows) : rows[i].tx_hash = h
    THEN [present |-> TRUE,
          row |-> rows[CHOOSE i \in 1..Len(rows) :
                          /\ rows[i].tx_hash = h
                          /\ \A j \in 1..(i - 1) : rows[j].tx_hash # h]]
    ELSE Absent

(***************************************************************************)
(* GenerateAddressesUseCase.execute                                         *)
(***************************************************************************)
PIdle == [pc |-> "idle"]

\* num_addresses as the caller passes it: an int, a bool or a string
CountInputs ==
    {[kind |-> "int", n |-> k] : k \in -1..MaxCount}
       \cup {[kind |-> "bool", n |-> b] : b \in {0, 1}}
       \cup {[kind |-> "str", n |-> 0]}

\* isinstance(num_addresses, int): bool is a subclass of int
IsInstanceInt(c) == c.kind \in {"int", "bool"}

\* line 44; True compares and counts as 1, False as 0
ValidCount(c) == IsInstanceInt(c) /\ c.n > 0

MoreToGenerate_OneShort(generated_addresses, num_addresses) ==
    Len(generated_addresses) + 1 < num_addresses.n

\* for _ in range(num_addresses)
MoreToGenerate(generated_addresses, num_addresses) ==
    Len(generated_addresses) < num_addresses.n

AfterSaveFailure_Rollback(rows, generated_addresses) ==
    SubSeq(rows, 1, Len(rows) - Len(generated_addresses))

\* the exception of save leaves execute: nothing is undone
AfterSaveFailure(rows, generated_addresses) == rows

\* what the caller of a use case gets: the returned value, or the exception
\* with the text str() gives of it
Outcome(value) == [ok |-> TRUE, value |-> value]
Raised(error, text) == [ok |-> FALSE, error |-> error, text |-> text]

\* str() of the exception of a failed INSERT INTO addresses: SQLAlchemy adds
\* the statement and its parameters when the statement was being executed,
\* and has none to add when the connection or the commit failed
AddressSaveErrorTexts(a) ==
    { <<"(OperationalError)">>,
      <<"(OperationalError)", "INSERT INTO addresses", a.address, a.private_key>> }

\* port_log is the history of the calls this execution made on its two ports
P_Begin(p, c) ==
    /\ pcall[p].pc = "idle"
    /\ ValidCount(c) => generated + c.n <= Len(AddrName)
    /\ pcall' = [pcall EXCEPT ![p] =
          IF ~ValidCount(c)
          THEN [pc |-> "error", error |-> "ValueError", num_addresses |-> c,
                generated_addresses |-> <<>>, port_log |-> <<>>,
                outcome |-> Raised("ValueError", <<"Numero de enderecos invalido.">>)]
          ELSE [pc |-> "generate", num_addresses |-> c,
                generated_addresses |-> <<>>, port_log |-> <<>>]]
    /\ UNCHANGED <<chainVars, generated, addresses, valVars, outVars>>

P_Generate(p) ==
    /\ pcall[p].pc = "generate"
    /\ generated' = generated + 1
    /\ LET new_address_entity == generate_new_address(generated + 1)
       IN pcall' = [pcall EXCEPT ![p] =
             [pc |-> "save", num_addresses |-> @.num_addresses,
              generated_addresses |-> @.generated_addresses,
              new_address_entity |-> new_address_entity,
              port_log |-> Append(@.port_log,
                                  [op |-> "generate", entity |-> new_address_entity])]]
    /\ UNCHANGED <<chainVars, addresses, valVars, outVars>>

\* address_repository.save commits the row, or raises when the database is
\* down or refuses the row
P_Save(p, db_up) ==
    /\ pcall[p].pc = "save"
    /\ LET c == pcall[p]
           a == c.new_address_entity
           log == Append(c.port_log, [op |-> "save", entity |-> a])
       IN IF db_up /\ AddressUnique(addresses, a)
          THEN /\ addresses' = address_save(addresses, a)
               /\ LET saved == addresses'[Len(addresses')]
                      out == Append(c.generated_addresses, saved)
                  IN pcall' = [pcall EXCEPT ![p] =
                        IF MoreToGenerate(out, c.num_addresses)
                        THEN [pc |-> "generate", num_addresses |-> c.num_addresses,
                              generated_addresses |-> out, port_log |-> log]
                        ELSE [pc |-> "done", num_addresses |-> c.num_addresses,
                              generated_addresses |-> out, port_log |-> log,
                              result |-> out, outcome |-> Outcome(out)]]
          ELSE /\ addresses' = AfterSaveFailure(addresses, c.generated_addresses)
               /\ \E text \in AddressSaveErrorTexts(a) :
                     pcall' = [pcall EXCEPT ![p] =
                        [pc |-> "error", error |-> "StoreError",
                         num_addresses |-> c.num_addresses,
                         generated_addresses |-> c.generated_addresses,
                         port_log |-> log,
                         outcome |-> Raised("StoreError", text)]]
    /\ UNCHANGED <<chainVars, generated, valVars, outVars>>

P_Return(p) ==
    /\ pcall[p].pc \in {"done", "error"}
    /\ pcall' = [pcall EXCEPT ![p] = PIdle]
    /\ UNCHANGED <<chainVars, generated, addresses, valVars, outVars>>

(***************************************************************************)
(* ValidateTransactionUseCase.execute                                       *)
(***************************************************************************)
VIdle == [pc |-> "idle"]

\* bytes.startswith(b"0x"): the first two bytes are the characters '0' 'x'
StartsWith0x(input) == Len(input) >= 2 /\ input[1] = 48 /\ input[2] = 120

IsNativeTransfer(tx_details) == tx_details.value > 0 /\ ~StartsWith0x(tx_details.input)

NativeTransfers(tx_details) ==
    IF IsNativeTransfer(tx_details)
    THEN <<[asset |-> "ETH", to_address |-> tx_details.to,
            value |-> StrOfInt(tx_details.value)]>>
    ELSE <<>>

RECURSIVE LogTransfers(_)
LogTransfers(logs) ==
    IF logs = <<>> THEN <<>>
    ELSE LET d == decode_erc20_transfer_log(Head(logs))
         IN (IF d.present
             THEN <<[asset |-> d.asset, to_address |-> d.to_address, value |-> d.value]>>
             ELSE <<>>) \o LogTransfers(Tail(logs))

ExtractTransfers(tx_details, tx_receipt) ==
    NativeTransfers(tx_details) \o LogTransfers(tx_receipt.logs)

\* asset keeps its initial value
PrimaryAsset_AlwaysNative(tx_receipt) == "ETH"

\* asset starts as "ETH" and is overwritten by every decoded log
PrimaryAsset(tx_receipt) ==
    LET ts == LogTransfers(tx_receipt.logs)
    IN IF ts = <<>> THEN "ETH" ELSE ts[Len(ts)].asset

\* looks at the recipient of the first transfer only
IsDestinationOurAddress_FirstOnly(transfers, our_addresses) ==
    /\ transfers # <<>>
    /\ \E j \in 1..Len(our_addresses) : transfers[1].to_address = our_addresses[j]

IsDestinationOurAddress(transfers, our_addresses) ==
    \E i \in 1..Len(transfers) :
        \E j \in 1..Len(our_addresses) : transfers[i].to_address = our_addresses[j]

ReceiptSucceeded_AnyStatus(tx_receipt) == tx_receipt.status \in {0, 1}

\* line 105
ReceiptSucceeded(tx_receipt) == tx_receipt.status = 1

IsValidAndSafe_NoDestination(confirmations, is_destination_our_address) ==
    confirmations >= MIN_CONFIRMATIONS

IsValidAndSafe_Exclusive(confirmations, is_destination_our_address) ==
    confirmations > MIN_CONFIRMATIONS /\ is_destination_our_address

\* line 111
IsValidAndSafe(confirmations, is_destination_our_address) ==
    confirmations >= MIN_CONFIRMATIONS /\ is_destination_our_address

AfterGate_AlwaysSave(is_valid_and_safe) == "save"

\* line 123: only an accepted transaction is saved
AfterGate(is_valid_and_safe) == IF is_valid_and_safe THEN "save" ELSE "done"

\* history: what a call has observed meets the three conditions of the gate
GateMet(status, current_block, blockNumber, transfers, our_addresses) ==
    /\ status = 1
    /\ current_block - blockNumber >= 12
    /\ \E i \in 1..Len(transfers) :
          \E j \in 1..Len(our_addresses) : transfers[i].to_address = our_addresses[j]

\* takes recipient and value from the last transfer
NewValidatedTx_LastTransfer(tx_hash, asset, transfers) ==
    [tx_hash |-> tx_hash, asset |-> asset,
     to_address |-> IF transfers # <<>> THEN transfers[Len(transfers)].to_address
                    ELSE "N/A",
     value |-> IF transfers # <<>> THEN transfers[Len(transfers)].value
               ELSE StrOfInt(0),
     is_valid |-> TRUE]

NewValidatedTx(tx_hash, asset, transfers) ==
    [tx_hash |-> tx_hash, asset |-> asset,
     to_address |-> IF transfers # <<>> THEN transfers[1].to_address ELSE "N/A",
     value |-> IF transfers # <<>> THEN transfers[1].value ELSE StrOfInt(0),
     is_valid |-> TRUE]

\* reads the height for every receipt and reports the depth
ResponseData_DepthAlways(c, is_valid_and_safe, confirmations) ==
    [tx_hash |-> c.tx_hash,
     is_valid_and_safe_for_credit |-> is_valid_and_safe,
     transfers |-> c.transfers,
     confirmations |-> get_current_block_number - c.tx_receipt.blockNumber,
     tx_status |-> IF c.tx_receipt.status = 1 THEN "success" ELSE "failed"]

ResponseData(c, is_valid_and_safe, confirmations) ==
    [tx_hash |-> c.tx_hash,
     is_valid_and_safe_for_credit |-> is_valid_and_safe,
     transfers |-> c.transfers,
     confirmations |-> confirmations,
     tx_status |-> IF c.tx_receipt.status = 1 THEN "success" ELSE "failed"]

\* answers from the stored record only while the chain still agrees with it
ExistingResponse_Rechecked(row) ==
    [status |-> "success",
     validation_result |->
        [is_valid |-> row.is_valid /\ receipts[row.tx_hash].present
                         /\ receipts[row.tx_hash].status = 1,
         asset |-> row.asset, to_address |-> row.to_address, value |-> row.value]]

ExistingResponse(row) ==
    [status |-> "success",
     validation_result |-> [is_valid |-> row.is_valid, asset |-> row.asset,
                            to_address |-> row.to_address, value |-> row.value]]

\* lines 51-66: argument check and de-duplication check
V_Begin(v, h) ==
    /\ vcall[v].pc = "idle"
    /\ LET existing_validation == validated_find_by_hash(validated, h)
       IN vcall' = [vcall EXCEPT ![v] =
             IF h = EmptyHash
             THEN [pc |-> "error", tx_hash |-> h, error |-> "ValueError:required"]
             ELSE IF existing_validation.present
             THEN [pc |-> "done", tx_hash |-> h, path |-> "existing",
                   result |-> ExistingResponse(existing_validation.row)]
             ELSE [pc |-> "details", tx_hash |-> h]]
    /\ UNCHANGED <<chainVars, provVars, validated, gate_passed, outVars>>

\* line 68
V_Details(v) ==
    /\ vcall[v].pc = "details"
    /\ vcall' = [vcall EXCEPT ![v] =
          [pc |-> "receipt", tx_hash |-> @.tx_hash,
           tx_details |-> get_transaction_details(@.tx_hash)]]
    /\ UNCHANGED <<chainVars, provVars, validated, gate_passed, outVars>>

AfterNotFound_Remembered(rows, tx_hash) ==
    validated_save(rows, [tx_hash |-> tx_hash, asset |-> "N/A", to_address |-> "N/A",
                          value |-> StrOfInt(0), is_valid |-> FALSE])

\* lines 71-72: the raise is all that happens, the store is as it was
AfterNotFound(rows, tx_hash) == rows

\* lines 69-92: the receipt is read, then the transfers are extracted
V_Receipt(v) ==
    /\ vcall[v].pc = "receipt"
    /\ LET c == vcall[v]
           tx_receipt == get_transaction_receipt(c.tx_hash)
       IN IF ~c.tx_details.present \/ ~tx_receipt.present
          THEN /\ vcall' = [vcall EXCEPT ![v] =
                     [pc |-> "error", tx_hash |-> c.tx_hash,
                      error |-> "ValueError:notfound"]]
               /\ validated' = AfterNotFound(validated, c.tx_hash)
          ELSE /\ vcall' = [vcall EXCEPT ![v] =
                     [pc |-> "addresses", tx_hash |-> c.tx_hash,
                      tx_details |-> c.tx_details, tx_receipt |-> tx_receipt,
                      transfers |-> ExtractTransfers(c.tx_details, tx_receipt),
                      asset |-> PrimaryAsset(tx_receipt)]]
               /\ validated' = validated
    /\ UNCHANGED <<chainVars, provVars, gate_passed, outVars>>

\* lines 94-105 (and 114-133 when the receipt status is not 1)
V_Addresses(v) ==
    /\ vcall[v].pc = "addresses"
    /\ LET c == vcall[v]
           rows == address_get_all(addresses)
           our_addresses == [i \in 1..Len(rows) |-> rows[i].address]
           dest == IsDestinationOurAddress(c.transfers, our_addresses)
           base == [tx_hash |-> c.tx_hash, tx_details |-> c.tx_details,
                    tx_receipt |-> c.tx_receipt, transfers |-> c.transfers,
                    asset |-> c.asset, our_addresses |-> our_addresses,
                    is_destination_our_address |-> dest]
       IN vcall' = [vcall EXCEPT ![v] =
             IF ReceiptSucceeded(c.tx_receipt)
             THEN base @@ [pc |-> "block"]
             ELSE base @@ [pc |-> "done", path |-> "fresh", has_confirmations |-> FALSE,
                           confirmations |-> 0, is_valid_and_safe |-> FALSE,
                           saved |-> FALSE, result |-> ResponseData(c, FALSE, 0)]]
    /\ UNCHANGED <<chainVars, provVars, validated, gate_passed, outVars>>

\* lines 106-120
V_Block(v) ==
    /\ vcall[v].pc = "block"
    /\ LET c == vcall[v]
           current_block == get_current_block_number
           confirmations == current_block - c.tx_receipt.blockNumber
           ok == IsValidAndSafe(confirmations, c.is_destination_our_address)
           base == [tx_hash |-> c.tx_hash, tx_details |-> c.tx_details,
                    tx_receipt |-> c.tx_receipt, transfers |-> c.transfers,
                    asset |-> c.asset, our_addresses |-> c.our_addresses,
                    is_destination_our_address |-> c.is_destination_our_address,
                    path |-> "fresh", has_confirmations |-> TRUE,
                    current_block |-> current_block,
                    confirmations |-> confirmations, is_valid_and_safe |-> ok,
                    saved |-> FALSE, result |-> ResponseData(c, ok, confirmations)]
       IN /\ vcall' = [vcall EXCEPT ![v] = base @@ [pc |-> AfterGate(ok)]]
          /\ gate_passed' =
                IF GateMet(c.tx_receipt.status, current_block, c.tx_receipt.blockNumber,
                           c.transfers, c.our_addresses)
                THEN gate_passed \cup {c.tx_hash} ELSE gate_passed
    /\ UNCHANGED <<chainVars, provVars, validated, outVars>>

\* lines 123-133: the INSERT either commits or is refused by the unique constraint
V_Save(v) ==
    /\ vcall[v].pc = "save"
    /\ LET c == vcall[v]
           new_validated_tx == NewValidatedTx(c.tx_hash, c.asset, c.transfers)
       IN IF ValidatedUnique(validated, new_validated_tx)
          THEN /\ validated' = validated_save(validated, new_validated_tx)
               /\ vcall' = [vcall EXCEPT ![v] = [pc |-> "done", saved |-> TRUE] @@ c]
          ELSE /\ validated' = validated
               /\ vcall' = [vcall EXCEPT ![v] =
                     [pc |-> "error", error |-> "IntegrityError"] @@ c]
    /\ UNCHANGED <<chainVars, provVars, gate_passed, outVars>>

V_Return(v) ==
    /\ vcall[v].pc \in {"done", "error"}
    /\ vcall' = [vcall EXCEPT ![v] = VIdle]
    /\ UNCHANGED <<chainVars, provVars, validated, gate_passed, outVars>>

(***************************************************************************)
(* SQLAlchemyCreatedTransactionRepository                                   *)
(***************************************************************************)
\* a nullable column or Optional field
Null == [null |-> TRUE]
Some(x) == [null |-> FALSE, v |-> x]

\* unique=True on created_transactions.tx_hash; NULLs do not collide
CreatedUnique(rows, id, tx_hash) ==
    tx_hash.null \/ \A i \in 1..Len(rows) : i # id => rows[i].tx_hash # tx_hash

\* stores the amount converted to wei, not the string given
created_save_InWei(rows, tx) ==
    Append(rows, [id |-> Len(rows) + 1, tx_hash |-> tx.tx_hash,
                  from_address |-> tx.from_address, to_address |-> tx.to_address,
                  asset |-> tx.asset, value |-> "1",
                  status |-> tx.status,
                  gas_price_gwei |-> tx.gas_price_gwei, gas_limit |-> tx.gas_limit,
                  effective_cost_wei |-> tx.effective_cost_wei])

created_save(rows, tx) ==
    Append(rows, [id |-> Len(rows) + 1, tx_hash |-> tx.tx_hash,
                  from_address |-> tx.from_address, to_address |-> tx.to_address,
                  asset |-> tx.asset, value |-> tx.value, status |-> tx.status,
                  gas_price_gwei |-> tx.gas_price_gwei, gas_limit |-> tx.gas_limit,
                  effective_cost_wei |-> tx.effective_cost_wei])

\* filter_by(tx_hash=...).first(); a None argument selects the rows whose hash IS NULL
created_find_by_hash(rows, h) ==
    IF \E i \in 1..Len(rows) : rows[i].tx_hash = h
    THEN [present |-> TRUE,
          row |-> rows[CHOOSE i \in 1..Len(rows) :
                          /\ rows[i].tx_hash = h
                          /\ \A j \in 1..(i - 1) : rows[j].tx_hash # h]]
    ELSE Absent

created_update_NoGasLimit(rows, tx) ==
    [rows EXCEPT ![tx.id] =
        [@ EXCEPT !.tx_hash = tx.tx_hash, !.status = tx.status,
                  !.gas_price_gwei = tx.gas_price_gwei,
                  !.effective_cost_wei = tx.effective_cost_wei]]

\* the columns update() writes; from_address, to_address, asset, value are not written
created_update(rows, tx) ==
    [rows EXCEPT ![tx.id] =
        [@ EXCEPT !.tx_hash = tx.tx_hash, !.status = tx.status,
                  !.gas_price_gwei = tx.gas_price_gwei, !.gas_limit = tx.gas_limit,
                  !.effective_cost_wei = tx.effective_cost_wei]]

(***************************************************************************)
(* CreateTransactionUseCase.execute                                         *)
(***************************************************************************)
CCalls == {"c1"}
CIdle == [pc |-> "idle"]

ONE_WEI == "0.000000000000000001"

\* request bodies: complete ones, one from an address that is not custodied,
\* and one with each of the four fields empty
CreateInputs ==
    { [from_address |-> "a1",  to_address |-> "ext", asset |-> "ETH", value |-> ONE_WEI],
      [from_address |-> "ext", to_address |-> "a1",  asset |-> "ETH", value |-> ONE_WEI],
      [from_address |-> "",    to_address |-> "ext", asset |-> "ETH", value |-> ONE_WEI],
      [from_address |-> "a1",  to_address |-> "",    asset |-> "ETH", value |-> ONE_WEI],
      [from_address |-> "a1",  to_address |-> "ext", asset |-> "",    value |-> ONE_WEI],
      [from_address |-> "a1",  to_address |-> "ext", asset |-> "ETH", value |-> ""] }

AllFieldsGiven_IgnoresValue(in) ==
    in.from_address # "" /\ in.to_address # "" /\ in.asset # ""

\* line 58: all([from_address, to_address, asset, value])
AllFieldsGiven(in) ==
    in.from_address # "" /\ in.to_address # "" /\ in.asset # "" /\ in.value # ""

NewCreatedTx_Sent(in) ==
    [id |-> Null, tx_hash |-> Null, from_address |-> in.from_address,
     to_address |-> in.to_address, asset |-> in.asset, value |-> in.value,
     status |-> "sent", gas_price_gwei |-> Null, gas_limit |-> Null,
     effective_cost_wei |-> Null]

NewCreatedTx(in) ==
    [id |-> Null, tx_hash |-> Null, from_address |-> in.from_address,
     to_address |-> in.to_address, asset |-> in.asset, value |-> in.value,
     status |-> "pending", gas_price_gwei |-> Null, gas_limit |-> Null,
     effective_cost_wei |-> Null]

\* the transaction dict create_and_sign_transaction returns next to the raw payload
SignedDetails == {[gasPrice |-> 24, gas |-> 21]}

AfterSenderFound_SignFirst == "sign"

\* the step that follows the lookup of the sender
AfterSenderFound == "save"

SigningKey_Supplied(sender_account_db) == "key-from-request"

\* line 65
SigningKey(sender_account_db) == sender_account_db.row.private_key

\* lines 58-65
C_Begin(c, in) ==
    /\ ccall[c].pc = "idle"
    /\ Len(created) < MaxCreated
    /\ LET sender_account_db == address_find_by_address(addresses, in.from_address)
       IN ccall' = [ccall EXCEPT ![c] =
             IF ~AllFieldsGiven(in)
             THEN [pc |-> "error", error |-> "ValueError:required", in |-> in]
             ELSE IF ~sender_account_db.present
             THEN [pc |-> "error", error |-> "ValueError:notfound", in |-> in]
             ELSE [pc |-> AfterSenderFound, in |-> in,
                   private_key |-> SigningKey(sender_account_db),
                   new_created_tx |-> NewCreatedTx(in)]]
    /\ UNCHANGED <<chainVars, provVars, valVars, created, rcall, net_log>>

\* lines 69-76
C_Save(c) ==
    /\ ccall[c].pc = "save"
    /\ created' = created_save(created, ccall[c].new_created_tx)
    /\ ccall' = [ccall EXCEPT ![c] =
          [@ EXCEPT !.pc = "sign", !.new_created_tx.id = Some(Len(created'))]]
    /\ UNCHANGED <<chainVars, provVars, valVars, rcall, net_log>>

\* lines 80-82: the chain client prices and signs, or raises
C_Sign(c, chain_up) ==
    /\ ccall[c].pc = "sign"
    /\ net_log' = Append(net_log, [op |-> "sign", id |-> ccall[c].new_created_tx.id,
                                   in |-> ccall[c].in, key |-> ccall[c].private_key])
    /\ \E d \in SignedDetails :
          ccall' = [ccall EXCEPT ![c] =
             IF chain_up
             THEN [pc |-> "send", tx_details |-> d] @@ @
             ELSE [pc |-> "error", error |-> "ChainError:sign"] @@ @]
    /\ UNCHANGED <<chainVars, provVars, valVars, created, rcall>>

C_Send_Retrying(c, chain_up, h) ==
    /\ ccall[c].pc = "send"
    /\ net_log' = Append(net_log, [op |-> "send", id |-> ccall[c].new_created_tx.id,
                                   in |-> ccall[c].in, key |-> ccall[c].private_key])
    /\ ccall' = [ccall EXCEPT ![c] =
          IF chain_up
          THEN [pc |-> "update", tx_hash |-> h] @@ @
          ELSE IF \E i \in 1..Len(net_log) :
                     net_log[i].op = "send" /\ net_log[i].id = ccall[c].new_created_tx.id
          THEN [pc |-> "error", error |-> "ChainError:send"] @@ @
          ELSE @]
    /\ UNCHANGED <<chainVars, provVars, valVars, created, rcall>>

\* line 84: the broadcast returns a hash, or raises
C_Send(c, chain_up, h) ==
    /\ ccall[c].pc = "send"
    /\ net_log' = Append(net_log, [op |-> "send", id |-> ccall[c].new_created_tx.id,
                                   in |-> ccall[c].in, key |-> ccall[c].private_key])
    /\ ccall' = [ccall EXCEPT ![c] =
          IF chain_up
          THEN [pc |-> "update", tx_hash |-> h] @@ @
          ELSE [pc |-> "error", error |-> "ChainError:send"] @@ @]
    /\ UNCHANGED <<chainVars, provVars, valVars, created, rcall>>

\* lines 88-93
C_Update(c) ==
    /\ ccall[c].pc = "update"
    /\ LET k == ccall[c]
           tx == [k.new_created_tx EXCEPT
                     !.tx_hash = Some(k.tx_hash),
                     !.gas_price_gwei = Some(StrOfInt(k.tx_details.gasPrice)),
                     !.gas_limit = Some(k.tx_details.gas)]
       IN IF tx.id.null \/ tx.id.v \notin 1..Len(created)
          THEN /\ created' = created
               /\ ccall' = [ccall EXCEPT ![c] =
                     [pc |-> "error", error |-> "ValueError:update",
                      new_created_tx |-> tx] @@ @]
          ELSE IF ~CreatedUnique(created, tx.id.v, tx.tx_hash)
          THEN /\ created' = created
               /\ ccall' = [ccall EXCEPT ![c] =
                     [pc |-> "error", error |-> "IntegrityError",
                      new_created_tx |-> tx] @@ @]
          ELSE /\ created' = created_update(created, [tx EXCEPT !.id = tx.id.v])
               /\ ccall' = [ccall EXCEPT ![c] =
                     [pc |-> "done", new_created_tx |-> tx, result |-> tx] @@ @]
    /\ UNCHANGED <<chainVars, provVars, valVars, rcall, net_log>>

\* the process dies between two steps of a create call
C_Crash(c) ==
    /\ ccall[c].pc \in {"save", "sign", "send", "update"}
    /\ ccall' = [ccall EXCEPT ![c] = [pc |-> "error", error |-> "crash"] @@ @]
    /\ UNCHANGED <<chainVars, provVars, valVars, created, rcall, net_log>>

C_Return(c) ==
    /\ ccall[c].pc \in {"done", "error"}
    /\ ccall' = [ccall EXCEPT ![c] = CIdle]
    /\ UNCHANGED <<chainVars, provVars, valVars, created, rcall, net_log>>

(***************************************************************************)
(* UpdateTransactionStatusUseCase.execute                                   *)
(***************************************************************************)
RCalls == {"r1", "r2"}
RIdle == [pc |-> "idle"]

EffectiveCost_Sum(tx_receipt) == StrOfInt(tx_receipt.gasUsed + tx_receipt.effectiveGasPrice)

\* lines 139-141: str of the product of two Python ints
EffectiveCost(tx_receipt) == StrOfInt(tx_receipt.gasUsed * tx_receipt.effectiveGasPrice)

Reconciled_Drifting(tx_record, tx_receipt) ==
    IF tx_receipt.present
    THEN IF tx_receipt.status = 1
         THEN [tx_record EXCEPT
                 !.status = "confirmed",
                 !.effective_cost_wei =
                     IF tx_record.status = "confirmed"
                     THEN Some(StrOfInt(2 * tx_receipt.gasUsed * tx_receipt.effectiveGasPrice))
                     ELSE Some(EffectiveCost(tx_receipt))]
         ELSE [tx_record EXCEPT !.status = "failed"]
    ELSE [tx_record EXCEPT !.status = "pending"]

\* lines 136-146: the entity after the receipt has been looked at
Reconciled(tx_record, tx_receipt) ==
    IF tx_receipt.present
    THEN IF tx_receipt.status = 1
         THEN [tx_record EXCEPT !.status = "confirmed",
                                !.effective_cost_wei = Some(EffectiveCost(tx_receipt))]
         ELSE [tx_record EXCEPT !.status = "failed"]
    ELSE [tx_record EXCEPT !.status = "pending"]

AfterReceipt_AlwaysUpdate(tx_receipt) == "update"

AfterReceipt_NeverUpdate(tx_receipt) == "done"

\* lines 136, 144-146: update is called only when there is a receipt
AfterReceipt(tx_receipt) == IF tx_receipt.present THEN "update" ELSE "done"

\* lines 131-133
R_Begin(r, h) ==
    /\ rcall[r].pc = "idle"
    /\ LET found == created_find_by_hash(created, h)
       IN rcall' = [rcall EXCEPT ![r] =
             IF ~found.present
             THEN [pc |-> "error", error |-> "ValueError:notfound", tx_hash |-> h]
             ELSE [pc |-> "receipt", tx_hash |-> h, tx_record |-> found.row]]
    /\ UNCHANGED <<chainVars, provVars, valVars, created, ccall, net_log>>

\* lines 135-146; read and seen_after are history: the record as find_by_hash
\* returned it, and the calls on the same hash that had read the receipt before
R_Receipt(r) ==
    /\ rcall[r].pc = "receipt"
    /\ LET k == rcall[r]
           tx_receipt == IF k.tx_hash.null THEN Absent
                         ELSE get_transaction_receipt(k.tx_hash.v)
           rec == Reconciled(k.tx_record, tx_receipt)
           seen_after == {q \in RCalls \ {r} : /\ rcall[q].pc \in {"update", "done"}
                                                /\ rcall[q].tx_hash = k.tx_hash}
       IN rcall' = [rcall EXCEPT ![r] =
             IF AfterReceipt(tx_receipt) = "update"
             THEN [pc |-> "update", tx_hash |-> k.tx_hash, tx_receipt |-> tx_receipt,
                   tx_record |-> rec, read |-> k.tx_record, seen_after |-> seen_after]
             ELSE [pc |-> "done", tx_hash |-> k.tx_hash, tx_receipt |-> tx_receipt,
                   tx_record |-> rec, read |-> k.tx_record, seen_after |-> seen_after,
                   result |-> rec, wrote |-> FALSE]]
    /\ UNCHANGED <<chainVars, provVars, valVars, created, ccall, net_log>>

\* line 144
R_Update(r) ==
    /\ rcall[r].pc = "update"
    /\ LET k == rcall[r]
       IN /\ created' = created_update(created, k.tx_record)
          /\ rcall' = [rcall EXCEPT ![r] =
                [pc |-> "done", result |-> k.tx_record, wrote |-> TRUE] @@ @]
    /\ UNCHANGED <<chainVars, provVars, valVars, ccall, net_log>>

R_Return(r) ==
    /\ rcall[r].pc \in {"done", "error"}
    /\ rcall' = [rcall EXCEPT ![r] = RIdle]
    /\ UNCHANGED <<chainVars, provVars, valVars, created, ccall, net_log>>

(***************************************************************************)
(* Initial states and specifications                                        *)
(***************************************************************************)
\* h2 was mined long ago as a plain transfer to the first generated address
SettledShape == [to |-> "a1", value |-> 5, input |-> <<>>, logs |-> <<>>]
SettledReceipt ==
    [present |-> TRUE, status |-> 1, blockNumber |-> 1, gasUsed |-> 3,
     effectiveGasPrice |-> 7, logs |-> <<>>]

InitStore ==
    /\ generated = 0
    /\ addresses = <<>>
    /\ pcall = [p \in PCalls |-> PIdle]
    /\ validated = <<>>
    /\ vcall = [v \in VCalls |-> VIdle]
    /\ gate_passed = {}

InitValidate ==
    /\ height = StartHeight
    /\ world \in {w \in [Hashes -> TxShapes] : w["h2"] = SettledShape}
    /\ tx_known = {"h2"}
    /\ receipts = [h \in Hashes |-> IF h = "h2" THEN SettledReceipt ELSE Absent]
    /\ InitStore
    /\ created = <<>>
    /\ ccall = [c \in CCalls |-> CIdle]
    /\ rcall = [r \in RCalls |-> RIdle]
    /\ net_log = <<>>

Chain ==
    \/ \E h \in LiveHashes : ChainTx(h)
    \/ \E h \in LiveHashes : ChainReceipt(h)
    \/ ChainAdvance

Provision ==
    \/ \E p \in PCalls, c \in {k \in CountInputs : k.kind = "int" /\ k.n = 1} :
          generated < MaxAddrs /\ P_Begin(p, c)
    \/ \E p \in PCalls : P_Generate(p)
    \/ \E p \in PCalls : P_Save(p, TRUE)
    \/ \E p \in PCalls : P_Return(p)

Validate ==
    \/ \E v \in VCalls, h \in LiveHashes \cup {EmptyHash} : V_Begin(v, h)
    \/ \E v \in VCalls : V_Details(v)
    \/ \E v \in VCalls : V_Receipt(v)
    \/ \E v \in VCalls : V_Addresses(v)
    \/ \E v \in VCalls : V_Block(v)
    \/ \E v \in VCalls : V_Save(v)
    \/ \E v \in VCalls : V_Return(v)

NextValidate == Chain \/ Provision \/ Validate

SpecValidate == InitValidate /\ [][NextValidate]_vars

\* the application after one address has been provisioned; the chain has
\* mined nothing of what the application will send
InitOutbound ==
    /\ height = StartHeight
    /\ world = [h \in Hashes |-> SettledShape]
    /\ tx_known = {}
    /\ receipts = [h \in Hashes |-> Absent]
    /\ generated = 1
    /\ addresses = address_save(<<>>, generate_new_address(1))
    /\ pcall = [p \in PCalls |-> PIdle]
    /\ validated = <<>>
    /\ vcall = [v \in VCalls |-> VIdle]
    /\ gate_passed = {}
    /\ created = <<>>
    /\ ccall = [c \in CCalls |-> CIdle]
    /\ rcall = [r \in RCalls |-> RIdle]
    /\ net_log = <<>>

Create ==
    \/ \E c \in CCalls, in \in CreateInputs : C_Begin(c, in)
    \/ \E c \in CCalls : C_Save(c)
    \/ \E c \in CCalls, chain_up \in BOOLEAN : C_Sign(c, chain_up)
    \/ \E c \in CCalls, chain_up \in BOOLEAN, h \in Hashes : C_Send(c, chain_up, h)
    \/ \E c \in CCalls : C_Update(c)
    \/ \E c \in CCalls : C_Crash(c)
    \/ \E c \in CCalls : C_Return(c)

Reconcile(slots) ==
    \/ \E r \in slots, h \in {Some(x) : x \in Hashes} \cup {Null} : R_Begin(r, h)
    \/ \E r \in slots : R_Receipt(r)
    \/ \E r \in slots : R_Update(r)
    \/ \E r \in slots : R_Return(r)

NextOutbound ==
    \/ \E h \in Hashes : ChainReceipt(h)
    \/ Create
    \/ Reconcile({"r1"})

SpecOutbound == InitOutbound /\ [][NextOutbound]_vars

\* the application after create(a1, ext, ETH, 1 wei) has broadcast h1 and
\* returned; the receipt of h1 appears, changes and disappears while
\* reconcile calls run side by side
SentInput ==
    [from_address |-> "a1", to_address |-> "ext", asset |-> "ETH", value |-> ONE_WEI]

SentRows ==
    LET d == CHOOSE x \in SignedDetails : TRUE
    IN created_update(created_save(<<>>, NewCreatedTx(SentInput)),
                      [NewCreatedTx(SentInput) EXCEPT
                          !.id = 1, !.tx_hash = Some("h1"),
                          !.gas_price_gwei = Some(StrOfInt(d.gasPrice)),
                          !.gas_limit = Some(d.gas)])

InitReconcile ==
    /\ height = StartHeight
    /\ world = [h \in Hashes |-> SettledShape]
    /\ tx_known = {}
    /\ receipts = [h \in Hashes |-> Absent]
    /\ generated = 1
    /\ addresses = address_save(<<>>, generate_new_address(1))
    /\ pcall = [p \in PCalls |-> PIdle]
    /\ validated = <<>>
    /\ vcall = [v \in VCalls |-> VIdle]
    /\ gate_passed = {}
    /\ created = SentRows
    /\ ccall = [c \in CCalls |-> CIdle]
    /\ rcall = [r \in RCalls |-> RIdle]
    /\ net_log = <<[op |-> "sign", id |-> Some(1), in |-> SentInput, key |-> KeyName[1]],
                   [op |-> "send", id |-> Some(1), in |-> SentInput, key |-> KeyName[1]]>>

NextReconcile ==
    \/ \E h \in LiveHashes : ChainReceipt(h)
    \/ Reconcile(RCalls)

SpecReconcile == InitReconcile /\ [][NextReconcile]_vars

\* the same application after a second create, whose signing failed: its
\* record is the second row, pending and without hash
OrphanRows == created_save(SentRows, NewCreatedTx(SentInput))

InitOrphan ==
    /\ height = StartHeight
    /\ world = [h \in Hashes |-> SettledShape]
    /\ tx_known = {}
    /\ receipts = [h \in Hashes |-> Absent]
    /\ generated = 1
    /\ addresses = address_save(<<>>, generate_new_address(1))
    /\ pcall = [p \in PCalls |-> PIdle]
    /\ validated = <<>>
    /\ vcall = [v \in VCalls |-> VIdle]
    /\ gate_passed = {}
    /\ created = OrphanRows
    /\ ccall = [c \in CCalls |-> CIdle]
    /\ rcall = [r \in RCalls |-> RIdle]
    /\ net_log = <<[op |-> "sign", id |-> Some(1), in |-> SentInput, key |-> KeyName[1]],
                   [op |-> "send", id |-> Some(1), in |-> SentInput, key |-> KeyName[1]],
                   [op |-> "sign", id |-> Some(2), in |-> SentInput, key |-> KeyName[1]]>>

\* the clients call reconcile again and again with every argument, and a
\* call that has started runs to its end
FairReconcile ==
    /\ \A r \in RCalls, h \in {Some(x) : x \in Hashes} \cup {Null} :
          SF_vars(R_Begin(r, h))
    /\ \A r \in RCalls :
          WF_vars(R_Receipt(r)) /\ WF_vars(R_Update(r)) /\ WF_vars(R_Return(r))

SpecReconcileFair == InitOrphan /\ [][NextReconcile]_vars /\ FairReconcile

\* the application with one address and a chain that has mined h1 and h2 as
\* payments to it, deep enough to be accepted; the receipt of h1 may change
InitRequests ==
    /\ height = 1 + MIN_CONFIRMATIONS
    /\ world = [h \in Hashes |-> SettledShape]
    /\ tx_known = Hashes
    /\ receipts = [h \in Hashes |-> IF h = "h2" THEN SettledReceipt ELSE Absent]
    /\ generated = 1
    /\ addresses = address_save(<<>>, generate_new_address(1))
    /\ pcall = [p \in PCalls |-> PIdle]
    /\ validated = <<>>
    /\ vcall = [v \in VCalls |-> VIdle]
    /\ gate_passed = {}
    /\ created = <<>>
    /\ ccall = [c \in CCalls |-> CIdle]
    /\ rcall = [r \in RCalls |-> RIdle]
    /\ net_log = <<>>

\* no request is being served
Quiet ==
    /\ \A c \in CCalls : ccall[c] = CIdle
    /\ \A r \in RCalls : rcall[r] = RIdle
    /\ \A v \in VCalls : vcall[v] = VIdle

\* the three routes of the transaction blueprints, served one request at a
\* time, while the chain goes on changing the receipt of h1
NextRequests ==
    \/ \E h \in LiveHashes : ChainReceipt(h)
    \/ \E in \in CreateInputs : Quiet /\ C_Begin("c1", in)
    \/ C_Save("c1")
    \/ \E chain_up \in BOOLEAN : C_Sign("c1", chain_up)
    \/ \E chain_up \in BOOLEAN, h \in Hashes : C_Send("c1", chain_up, h)
    \/ C_Update("c1")
    \/ C_Return("c1")
    \/ \E h \in {Some(x) : x \in Hashes} : Quiet /\ R_Begin("r1", h)
    \/ R_Receipt("r1")
    \/ R_Update("r1")
    \/ R_Return("r1")
    \/ \E h \in LiveHashes \cup {EmptyHash} : Quiet /\ V_Begin("v1", h)
    \/ V_Details("v1")
    \/ V_Receipt("v1")
    \/ V_Addresses("v1")
    \/ V_Block("v1")
    \/ V_Save("v1")
    \/ V_Return("v1")

SpecRequests == InitRequests /\ [][NextRequests]_vars

\* POST /addresses: the response made of what execute returned or raised
generate_addresses(outcome) ==
    IF outcome.ok
    THEN [code |-> 201, status |-> "success", count |-> Len(outcome.value),
          addresses |-> [i \in 1..Len(outcome.value) |-> outcome.value[i].address]]
    ELSE IF outcome.error = "ValueError"
    THEN [code |-> 400, status |-> "error", message |-> outcome.text]
    ELSE [code |-> 500, status |-> "error",
          message |-> <<"Erro interno: ">> \o outcome.text]

\* GET /addresses
list_addresses(rows) ==
    [code |-> 200,
     address_list |-> [i \in 1..Len(rows) |-> [id |-> rows[i].id,
                                               address |-> rows[i].address]]]

\* the application with an empty store; requests of every kind of count
\* arrive, and the database may refuse a commit
InitProvision ==
    /\ height = StartHeight
    /\ world = [h \in Hashes |-> SettledShape]
    /\ tx_known = {}
    /\ receipts = [h \in Hashes |-> Absent]
    /\ InitStore
    /\ created = <<>>
    /\ ccall = [c \in CCalls |-> CIdle]
    /\ rcall = [r \in RCalls |-> RIdle]
    /\ net_log = <<>>

NextProvision ==
    \/ \E p \in PCalls, c \in CountInputs : P_Begin(p, c)
    \/ \E p \in PCalls : P_Generate(p)
    \/ \E p \in PCalls, db_up \in BOOLEAN : P_Save(p, db_up)
    \/ \E p \in PCalls : P_Return(p)

SpecProvision == InitProvision /\ [][NextProvision]_vars

\* a token transaction whose receipt has a malformed Transfer log and a log
\* of another event between two well-formed Transfer logs
InterleavedShape ==
    [to |-> "tok", value |-> 0, input |-> <<169, 5>>,
     logs |-> <<TransferLog("a1", 3), BadDataTransferLog, ApprovalLog,
                TransferLog("ext", 4)>>]

\* a token transaction with two transfers, the second to a1
LaterRecipientShape ==
    [to |-> "tok", value |-> 0, input |-> <<169, 5>>,
     logs |-> <<TransferLog("ext", 4), TransferLog("a1", 3)>>]

\* a payment with no call data to a contract that issues tokens on receipt
PaidIssueShape ==
    [to |-> "tok", value |-> 5, input |-> <<>>, logs |-> <<TransferLog("a1", 3)>>]

MinedShapes == TxShapes \cup {InterleavedShape, LaterRecipientShape, PaidIssueShape}

\* the application with an empty store and a chain on which the transaction
\* of h1 is already mined, with any content and either receipt status: the
\* addresses are provisioned after the mining, blocks go on being added
InitMined ==
    /\ height = StartHeight
    /\ world \in {w \in [Hashes -> MinedShapes] : w["h2"] = SettledShape}
    /\ tx_known = Hashes
    /\ \E r \in ReceiptsOf("h1") :
          receipts = [h \in Hashes |-> IF h = "h2" THEN SettledReceipt ELSE r]
    /\ InitStore
    /\ created = <<>>
    /\ ccall = [c \in CCalls |-> CIdle]
    /\ rcall = [r \in RCalls |-> RIdle]
    /\ net_log = <<>>

NextMined == ChainAdvance \/ Provision \/ Validate

SpecMined == InitMined /\ [][NextMined]_vars

(***************************************************************************)
(* Properties of validate                                                   *)
(***************************************************************************)
RecordsOf(h) == {i \in 1..Len(validated) : validated[i].tx_hash = h}

\* a call that found no stored record and has returned its response
Returned(v) == vcall[v].pc = "done" /\ vcall[v].path = "fresh"

Accepted(v) == vcall[v].result.is_valid_and_safe_for_credit

\* the call has read the receipt of its hash
HasReceipt(v) == "tx_receipt" \in DOMAIN vcall[v]

\* the three conditions of the gate, on what the call read
SawSuccess(v) == vcall[v].tx_receipt.status = 1

SawDepth(v) == vcall[v].current_block - vcall[v].tx_receipt.blockNumber

SawOurRecipient(v) ==
    \E i \in 1..Len(vcall[v].transfers) :
        \E j \in 1..Len(vcall[v].our_addresses) :
            vcall[v].transfers[i].to_address = vcall[v].our_addresses[j]

\* C1: a validate call on a hash without a stored record returns accepted
\* exactly when the receipt it read has status 1, the height it read is at
\* least 12 above the receipt's block and a transfer it extracted goes to a
\* custodied address; a call that returns accepted has stored one record of
\* the hash.  An insert is refused only when a record of the hash is stored.
C1_AcceptedIffGate ==
    \A v \in VCalls :
       /\ Returned(v) =>
             /\ Accepted(v) <=>
                   (/\ SawSuccess(v)
                    /\ vcall[v].has_confirmations
                    /\ SawDepth(v) >= 12
                    /\ SawOurRecipient(v))
             /\ Accepted(v) => Cardinality(RecordsOf(vcall[v].tx_hash)) = 1
       /\ (vcall[v].pc = "error" /\ vcall[v].error = "IntegrityError") =>
             RecordsOf(vcall[v].tx_hash) # {}

C1_Witness ==
    \E v \in VCalls :
       /\ Returned(v) /\ Accepted(v) /\ vcall[v].saved
       /\ Cardinality(RecordsOf(vcall[v].tx_hash)) = 1

\* C2: a validate call that read a receipt with status 0 returns accepted =
\* false and stores nothing, whatever the depth and the custodied addresses.
C2_FailedReceiptVeto ==
    \A v \in VCalls :
       (HasReceipt(v) /\ vcall[v].tx_receipt.status = 0) =>
           /\ vcall[v].pc \in {"addresses", "done"}
           /\ vcall[v].pc = "done" => (~Accepted(v) /\ ~vcall[v].saved)

C2_Witness ==
    \E v \in VCalls :
       /\ Returned(v) /\ vcall[v].tx_receipt.status = 0
       /\ SawOurRecipient(v)
       /\ height - vcall[v].tx_receipt.blockNumber >= 12

\* C3: with a success receipt and a custodied recipient, a depth of 11 or
\* less is rejected and a depth of 12 or more is accepted.
C3_InclusiveAtTwelve ==
    \A v \in VCalls :
       (Returned(v) /\ SawSuccess(v) /\ SawOurRecipient(v)) =>
           /\ SawDepth(v) <= 11 => ~Accepted(v)
           /\ SawDepth(v) >= 12 => Accepted(v)

C3_Witness ==
    \E v, w \in VCalls :
       /\ Returned(v) /\ SawSuccess(v) /\ SawOurRecipient(v)
       /\ SawDepth(v) = 11 /\ ~Accepted(v)
       /\ Returned(w) /\ SawSuccess(w) /\ SawOurRecipient(w)
       /\ SawDepth(w) = 12 /\ Accepted(w)

\* C4: a record of a hash is stored only if a validate call on the hash
\* observed the three conditions, and whenever a call observed them a record
\* is stored as soon as no such call is still about to insert.
C4_RecordIffObserved ==
    \A h \in Hashes :
       /\ RecordsOf(h) # {} => h \in gate_passed
       /\ h \in gate_passed =>
             \/ RecordsOf(h) # {}
             \/ \E v \in VCalls : vcall[v].pc = "save" /\ vcall[v].tx_hash = h

C4_Witness ==
    /\ \E h \in Hashes : RecordsOf(h) # {} /\ h \in gate_passed
    /\ \E v \in VCalls : Returned(v) /\ ~Accepted(v)

StoredOutcome(h) ==
    LET row == validated[CHOOSE i \in RecordsOf(h) : TRUE]
    IN [is_valid |-> row.is_valid, asset |-> row.asset,
        to_address |-> row.to_address, value |-> row.value]

\* C5: no hash ever has two records, and a validate call that starts when a
\* record of its hash is stored returns that record's is_valid, asset,
\* to_address and value, and writes nothing.
C5_IdempotentValidation ==
    /\ [](\A h \in Hashes : Cardinality(RecordsOf(h)) <= 1)
    /\ [][\A v \in VCalls :
            (vcall[v].pc = "idle" /\ vcall'[v].pc # "idle"
               /\ RecordsOf(vcall'[v].tx_hash) # {}) =>
                 /\ vcall'[v].pc = "done"
                 /\ vcall'[v].result.validation_result = StoredOutcome(vcall'[v].tx_hash)
                 /\ validated' = validated]_vars

C5_Witness ==
    \E v \in VCalls :
       /\ vcall[v].pc = "done" /\ vcall[v].path = "existing"
       /\ vcall[v].result.validation_result = StoredOutcome(vcall[v].tx_hash)
       /\ vcall[v].result.validation_result.is_valid

\* C6: when two validate calls on one hash both pass the existence check
\* before either inserts, the store still ends with one record of the hash.
C6_AtMostOneUnderRace ==
    \A h \in Hashes : Cardinality(RecordsOf(h)) <= 1

C6_Witness ==
    \E v, w \in VCalls :
       /\ v # w
       /\ vcall[v].pc = "done" /\ vcall[v].path = "fresh" /\ vcall[v].saved
       /\ vcall[w].pc = "error" /\ vcall[w].error = "IntegrityError"
       /\ vcall[v].tx_hash = vcall[w].tx_hash
       /\ Cardinality(RecordsOf(vcall[v].tx_hash)) = 1

\* C7: a validate call whose insert is refused by the unique constraint
\* returns an outcome: no call ends with the constraint's error.
C7_ConflictIsAlreadyValidated ==
    \A v \in VCalls : ~(vcall[v].pc = "error" /\ vcall[v].error = "IntegrityError")

(***************************************************************************)
(* Properties of create and reconcile                                       *)
(***************************************************************************)
\* C8: the status of a stored CreatedTransaction changes only from pending
\* to confirmed or from pending to failed.
C8_StatusMonotone ==
    [][\A i \in 1..Len(created) :
          created'[i].status # created[i].status =>
             /\ created[i].status = "pending"
             /\ created'[i].status \in {"confirmed", "failed"}]_vars

RecordOfIntent(e) ==
    /\ ~e.id.null
    /\ e.id.v \in 1..Len(created)
    /\ created[e.id.v].from_address = e.in.from_address
    /\ created[e.id.v].to_address = e.in.to_address
    /\ created[e.id.v].asset = e.in.asset
    /\ created[e.id.v].value = e.in.value

\* C9: whenever create has called sign or broadcast, the record of that
\* intent is already in the store, also after a crash at a later step.
C9_IntentBeforeNetwork ==
    \A k \in 1..Len(net_log) : RecordOfIntent(net_log[k])

C9_Witness ==
    /\ \E k \in 1..Len(net_log) : net_log[k].op = "send" /\ RecordOfIntent(net_log[k])
    /\ \E c \in CCalls : ccall[c].pc = "error" /\ ccall[c].error = "crash"

\* C10: when sign or broadcast fails, create ends with that error and the
\* record it inserted is pending with no hash and no gas fields.
C10_FailureLeavesPending ==
    \A c \in CCalls :
       (ccall[c].pc = "error" /\ ccall[c].error \in {"ChainError:sign", "ChainError:send"}) =>
          /\ ~ccall[c].new_created_tx.id.null
          /\ ccall[c].new_created_tx.id.v \in 1..Len(created)
          /\ LET row == created[ccall[c].new_created_tx.id.v]
             IN /\ row.status = "pending"
                /\ row.tx_hash = Null
                /\ row.gas_price_gwei = Null
                /\ row.gas_limit = Null

C10_Witness ==
    \E c \in CCalls :
       /\ ccall[c].pc = "error" /\ ccall[c].error = "ChainError:send"
       /\ created[ccall[c].new_created_tx.id.v].status = "pending"
       /\ created[ccall[c].new_created_tx.id.v].tx_hash = Null

\* the stored record a reconcile call works on
RowOf(r) == created[rcall[r].tx_record.id]

\* C11: a reconcile call that read a receipt writes status confirmed and the
\* decimal string of gasUsed * effectiveGasPrice when the receipt status is
\* 1, and status failed when it is not.
C11_ReceiptDecidesStatusAndCost ==
    [][\A r \in RCalls :
          /\ (/\ rcall[r].pc = "receipt" /\ rcall'[r].pc # "receipt"
              /\ ~rcall[r].tx_hash.null
              /\ receipts[rcall[r].tx_hash.v].present) =>
                (rcall'[r].pc = "update" /\ rcall'[r].tx_receipt = receipts[rcall[r].tx_hash.v])
          /\ (rcall[r].pc = "update" /\ rcall'[r].pc = "done") =>
                LET rc == rcall[r].tx_receipt
                    row == created'[rcall[r].tx_record.id]
                IN /\ rc.present
                   /\ row.tx_hash = rcall[r].tx_hash
                   /\ rc.status = 1 =>
                         /\ row.status = "confirmed"
                         /\ row.effective_cost_wei =
                               Some(StrOfInt(rc.gasUsed * rc.effectiveGasPrice))
                   /\ rc.status # 1 => row.status = "failed"]_vars

C11_Witness ==
    \E r \in RCalls :
       /\ rcall[r].pc = "done" /\ rcall[r].wrote
       /\ rcall[r].tx_receipt.status = 1
       /\ rcall[r].read.status = "pending"
       /\ RowOf(r).status = "confirmed"
       /\ RowOf(r).effective_cost_wei = Some(StrOfInt(21))

\* C12: a reconcile call that finds no receipt for its hash ends without a
\* store write: the stored records are the same before and after, and the
\* call reports status pending.
C12_AbsentReceiptWritesNothing ==
    [][\A r \in RCalls :
          (/\ rcall[r].pc = "receipt" /\ rcall'[r].pc # "receipt"
           /\ ~rcall[r].tx_hash.null
           /\ ~receipts[rcall[r].tx_hash.v].present) =>
             /\ rcall'[r].pc = "done"
             /\ ~rcall'[r].wrote
             /\ rcall'[r].result.status = "pending"
             /\ created' = created]_vars

C12_Witness ==
    \E r \in RCalls :
       /\ rcall[r].pc = "done" /\ ~rcall[r].wrote
       /\ rcall[r].tx_hash = Some("h1")
       /\ ~rcall[r].tx_receipt.present
       /\ RowOf(r) = rcall[r].read
       /\ RowOf(r).status = "pending"

\* the record a finished reconcile call left in the store
LeftBy(q) == IF rcall[q].wrote THEN rcall[q].result ELSE rcall[q].read

\* C13: a reconcile call that runs on the record an earlier call left, with
\* the same receipt state, returns what the earlier call returned and leaves
\* the record as the earlier call left it.
C13_ReconcileIdempotent ==
    \A r, q \in RCalls :
       (/\ r # q
        /\ rcall[r].pc = "done" /\ rcall[q].pc = "done"
        /\ rcall[r].tx_hash = rcall[q].tx_hash
        /\ rcall[r].tx_receipt = rcall[q].tx_receipt
        /\ rcall[r].read = LeftBy(q)) =>
          /\ rcall[r].result = rcall[q].result
          /\ RowOf(r) = LeftBy(q)

C13_Witness ==
    \E r, q \in RCalls :
       /\ r # q
       /\ rcall[r].pc = "done" /\ rcall[q].pc = "done"
       /\ rcall[q].wrote /\ rcall[r].wrote
       /\ rcall[q].read.status = "pending"
       /\ rcall[r].tx_receipt = rcall[q].tx_receipt
       /\ rcall[r].tx_receipt.status = 1
       /\ rcall[r].read = LeftBy(q)
       /\ rcall[r].result = rcall[q].result
       /\ RowOf(r).status = "confirmed"

\* what one reconcile call leaves of a record under a receipt state
SingleRun(tx_record, tx_receipt) ==
    IF tx_receipt.present THEN Reconciled(tx_record, tx_receipt) ELSE tx_record

\* C14: when two reconcile calls on one hash have both read the same stored
\* record, both read a receipt and both have written, the stored record is
\* the one a single call leaves under the receipt state that was read last.
C14_ConcurrentReconcileConverges ==
    \A r, q \in RCalls :
       (/\ r # q
        /\ rcall[r].pc = "done" /\ rcall[q].pc = "done"
        /\ rcall[r].wrote /\ rcall[q].wrote
        /\ ~rcall[r].tx_hash.null
        /\ rcall[r].tx_hash = rcall[q].tx_hash
        /\ rcall[r].read = rcall[q].read
        /\ q \in rcall[r].seen_after) =>
          RowOf(r) = SingleRun(rcall[r].read, rcall[r].tx_receipt)

AnyFieldEmpty(in) ==
    in.from_address = "" \/ in.to_address = "" \/ in.asset = "" \/ in.value = ""

Custodied(a) == \E i \in 1..Len(addresses) : addresses[i].address = a

ArgumentErrors == {"ValueError:required", "ValueError:notfound"}

\* C15: a create call with an empty field fails with the argument error,
\* one whose from address is not custodied fails with the not-found error;
\* such a call inserts no record and calls neither sign nor broadcast.
C15_InvalidCreateRejected ==
    [][\A c \in CCalls :
          /\ (ccall[c].pc = "idle" /\ ccall'[c].pc # "idle") =>
                LET k == ccall'[c]
                IN /\ AnyFieldEmpty(k.in) =>
                         (k.pc = "error" /\ k.error = "ValueError:required")
                   /\ (~AnyFieldEmpty(k.in) /\ ~Custodied(k.in.from_address)) =>
                         (k.pc = "error" /\ k.error = "ValueError:notfound")
                   /\ k.pc = "error" => (created' = created /\ net_log' = net_log)
          /\ (ccall[c].pc = "error" /\ ccall[c].error \in ArgumentErrors) =>
                /\ Len(created') = Len(created)
                /\ net_log' = net_log
                /\ ccall'[c].pc \in {"error", "idle"}]_vars

C15_Witness ==
    \E c \in CCalls :
       /\ ccall[c].pc = "error" /\ ccall[c].error = "ValueError:notfound"
       /\ ccall[c].in.from_address = "ext"
       /\ created = <<>> /\ net_log = <<>>

\* C16: the key every sign call received is the key the Address store holds
\* for the from address of the request.
C16_SigningKeyFromStore ==
    \A k \in 1..Len(net_log) :
       net_log[k].op = "sign" =>
          \E i \in 1..Len(addresses) :
             /\ addresses[i].address = net_log[k].in.from_address
             /\ addresses[i].private_key = net_log[k].key

C16_Witness ==
    \E k \in 1..Len(net_log) :
       /\ net_log[k].op = "sign"
       /\ net_log[k].in.from_address = "a1"
       /\ net_log[k].key = "k1"

\* C17: when create returns normally, the record of the call holds the hash
\* the broadcast returned, the gas price and gas limit of the signed
\* transaction and status pending, and create returns that record.
C17_CreateRecordsBroadcast ==
    [][\A c \in CCalls :
          (ccall[c].pc = "update" /\ ccall'[c].pc = "done") =>
             LET k == ccall[c]
                 out == ccall'[c].result
                 row == created'[out.id.v]
             IN /\ row.tx_hash = Some(k.tx_hash)
                /\ row.gas_price_gwei = Some(StrOfInt(k.tx_details.gasPrice))
                /\ row.gas_limit = Some(k.tx_details.gas)
                /\ row.status = "pending"
                /\ row.from_address = k.in.from_address
                /\ row.to_address = k.in.to_address
                /\ row.asset = k.in.asset
                /\ row.value = k.in.value
                /\ row = [out EXCEPT !.id = out.id.v]]_vars

C17_Witness ==
    \E c \in CCalls :
       /\ ccall[c].pc = "done"
       /\ created[ccall[c].result.id.v].tx_hash = Some(ccall[c].tx_hash)
       /\ created[ccall[c].result.id.v].gas_limit = ccall[c].result.gas_limit
       /\ ~ccall[c].result.gas_limit.null

(***************************************************************************)
(* Properties of provision                                                  *)
(***************************************************************************)
\* the saved entity is the row the store holds under the id it assigned
StoredAddress(e) == e.id \in 1..Len(addresses) /\ addresses[e.id] = e

\* C18: a provision call for a positive integer n that has returned made
\* exactly n generate calls and n save calls, each save on the keypair just
\* generated, and returns the n stored addresses in generation order.
C18_ProvisionGeneratesAndSavesN ==
    \A p \in PCalls :
       (pcall[p].pc = "done" /\ pcall[p].num_addresses.kind = "int") =>
          LET k == pcall[p]
              n == k.num_addresses.n
          IN /\ n > 0
             /\ Len(k.port_log) = 2 * n
             /\ Len(k.result) = n
             /\ \A i \in 1..n :
                   /\ k.port_log[2 * i - 1].op = "generate"
                   /\ k.port_log[2 * i].op = "save"
                   /\ k.port_log[2 * i].entity = k.port_log[2 * i - 1].entity
                   /\ k.result[i].address = k.port_log[2 * i - 1].entity.address
                   /\ k.result[i].private_key = k.port_log[2 * i - 1].entity.private_key
                   /\ StoredAddress(k.result[i])
             /\ \A i, j \in 1..n : i < j => k.result[i].id < k.result[j].id

C18_Witness ==
    \E p \in PCalls :
       /\ pcall[p].pc = "done"
       /\ pcall[p].num_addresses = [kind |-> "int", n |-> 3]
       /\ Len(pcall[p].result) = 3
       /\ Len(addresses) >= 3

\* C19: a provision call whose count is zero, negative or not an integer
\* ends with the argument error, generates no keypair and saves no address.
C19_InvalidCountRejected ==
    \A p \in PCalls :
       (/\ pcall[p].pc # "idle"
        /\ ~(pcall[p].num_addresses.kind = "int" /\ pcall[p].num_addresses.n > 0)) =>
          /\ pcall[p].pc = "error"
          /\ pcall[p].error = "ValueError"
          /\ pcall[p].port_log = <<>>
          /\ pcall[p].generated_addresses = <<>>

\* C20: when the save of the k-th address of a provision call fails, the
\* k-1 addresses the call saved before are still in the store.
C20_NoRollbackOnSaveFailure ==
    \A p \in PCalls :
       (pcall[p].pc = "error" /\ pcall[p].error = "StoreError") =>
          \A i \in 1..Len(pcall[p].generated_addresses) :
             StoredAddress(pcall[p].generated_addresses[i])

C20_Witness ==
    \E p \in PCalls :
       /\ pcall[p].pc = "error" /\ pcall[p].error = "StoreError"
       /\ pcall[p].num_addresses.n = 3
       /\ Len(pcall[p].generated_addresses) = 2
       /\ \A i \in 1..2 : StoredAddress(pcall[p].generated_addresses[i])

\* C21: when a save fails after the call has saved addresses, the caller
\* receives, with the error, the list of the addresses saved before.
C21_PartialListWithError ==
    \A p \in PCalls :
       (/\ pcall[p].pc = "error" /\ pcall[p].error = "StoreError"
        /\ pcall[p].generated_addresses # <<>>) =>
          /\ "value" \in DOMAIN pcall[p].outcome
          /\ pcall[p].outcome.value = pcall[p].generated_addresses

\* the call failed because the chain had no data of its hash
NotFound(v) == vcall[v].pc = "error" /\ vcall[v].error = "ValueError:notfound"

\* C22: a validate that reads neither transaction nor receipt of its hash
\* fails with the not-found error and leaves the store as it was; and while
\* that failure stands, a validate of the same hash that reads both goes on
\* to the checks that accept or reject, with no record of the hash stored.
C22_NotFoundIsNotPermanent ==
    [][\A v \in VCalls :
          (vcall[v].pc = "receipt" /\ vcall'[v] # vcall[v]) =>
             LET h == vcall[v].tx_hash
                 tx_receipt == get_transaction_receipt(h)
             IN /\ (~vcall[v].tx_details.present /\ ~tx_receipt.present) =>
                      /\ NotFound(v)'
                      /\ validated' = validated
                /\ (/\ \E q \in VCalls : NotFound(q) /\ vcall[q].tx_hash = h
                    /\ vcall[v].tx_details.present /\ tx_receipt.present) =>
                      /\ vcall'[v].pc = "addresses"
                      /\ vcall'[v].tx_receipt = tx_receipt
                      /\ RecordsOf(h) = {}]_vars

\* one call failed for want of chain data and stands; another call of the
\* same hash, made once the data was there, has accepted and stored it
C22_Witness ==
    \E v, q \in VCalls :
       /\ NotFound(q)
       /\ Returned(v) /\ vcall[v].tx_hash = vcall[q].tx_hash
       /\ Accepted(v) /\ vcall[v].saved

\* C23: the value of a created transaction is stored as the string given to
\* create, and no later step of create or of reconcile changes it.
C23_ValueStoredAsGiven ==
    [][/\ \A i \in 1..Len(created) :
             i <= Len(created') /\ created'[i].value = created[i].value
       /\ Len(created') > Len(created) =>
             \E c \in CCalls :
                /\ ccall[c].pc = "save" /\ ccall'[c].pc = "sign"
                /\ created'[Len(created')].value = ccall[c].in.value]_vars

\* a row created with the smallest amount has been through the update of
\* create and a reconcile, and still holds the string it was given
C23_Witness ==
    \E i \in 1..Len(created) :
       /\ created[i].value = ONE_WEI
       /\ created[i].status = "confirmed"
       /\ ~created[i].effective_cost_wei.null

\* the outcome that the record of h in rows holds
OutcomeIn(rows, h) ==
    LET row == rows[CHOOSE i \in 1..Len(rows) : rows[i].tx_hash = h]
    IN [is_valid |-> row.is_valid, asset |-> row.asset,
        to_address |-> row.to_address, value |-> row.value]

\* the call answered from the stored record of its hash
AnsweredFromStore(v) == vcall[v].pc = "done" /\ vcall[v].path = "existing"

\* C25: once a record of a hash is stored, a validate of the hash reads
\* nothing from the chain and writes nothing to the store, and its answer is
\* the stored outcome whatever the receipt and the height have become.
C25_StoredOutcomeIgnoresChain ==
    [][\A v \in VCalls :
          /\ (vcall[v].pc = "idle" /\ vcall'[v].pc # "idle"
                /\ RecordsOf(vcall'[v].tx_hash) # {}) =>
                  /\ AnsweredFromStore(v)'
                  /\ validated' = validated
          /\ AnsweredFromStore(v)' =>
                  /\ DOMAIN vcall'[v] = {"pc", "tx_hash", "path", "result"}
                  /\ vcall'[v].result =
                        [status |-> "success",
                         validation_result |->
                            OutcomeIn(validated', vcall'[v].tx_hash)]
                  /\ vcall'[v].result.validation_result.is_valid]_vars

\* a call was answered from the store although the chain now has no receipt
\* of the hash, or a failed one, and the height has moved on
C25_Witness ==
    \E v \in VCalls :
       /\ AnsweredFromStore(v)
       /\ vcall[v].result.validation_result.is_valid
       /\ \/ ~receipts[vcall[v].tx_hash].present
          \/ receipts[vcall[v].tx_hash].status = 0
       /\ height = MaxHeight

(***************************************************************************)
(* Properties of the transfer extraction of validate                        *)
(***************************************************************************)
\* the call has extracted the transfers of its transaction
Extracted(v) == "transfers" \in DOMAIN vcall[v]

\* the extraction recorded a native transfer: it is the first entry
HasNativeTransfer(v) ==
    vcall[v].transfers # <<>> /\ vcall[v].transfers[1].asset = "ETH"

\* C26: the extraction records a native transfer exactly when the
\* transaction has a non-zero value and no call data.
C26_NativeIffValueAndNoCallData ==
    \A v \in VCalls :
       Extracted(v) =>
          (HasNativeTransfer(v) <=>
              (vcall[v].tx_details.value > 0 /\ vcall[v].tx_details.input = <<>>))

Decodes(log) == decode_erc20_transfer_log(log).present

\* the entries of the extracted transfers that come from logs
TokenTransfers(v) ==
    IF HasNativeTransfer(v) THEN Tail(vcall[v].transfers) ELSE vcall[v].transfers

\* C27: every log that decodes as a token transfer gives one transfer, in
\* the order of the receipt, and the primary asset is the asset of the last
\* decoded log, or the native asset when no log decodes.
C27_OneTransferPerDecodedLog ==
    \A v \in VCalls :
       Extracted(v) =>
          LET decoded == SelectSeq(vcall[v].tx_receipt.logs, Decodes)
          IN /\ Len(TokenTransfers(v)) = Len(decoded)
             /\ \A i \in 1..Len(decoded) :
                   LET d == decode_erc20_transfer_log(decoded[i])
                   IN TokenTransfers(v)[i] =
                         [asset |-> d.asset, to_address |-> d.to_address,
                          value |-> d.value]
             /\ vcall[v].asset =
                   IF decoded = <<>> THEN "ETH"
                   ELSE decode_erc20_transfer_log(decoded[Len(decoded)]).asset

\* a receipt of four logs of which the third and the fourth decode: two token
\* transfers in that order, and the primary asset is the token
C27_Witness ==
    \E v \in VCalls :
       /\ Returned(v)
       /\ Len(vcall[v].tx_receipt.logs) = 4
       /\ Len(TokenTransfers(v)) = 2
       /\ TokenTransfers(v)[1].to_address = "a1"
       /\ TokenTransfers(v)[2].to_address = "ext"
       /\ vcall[v].asset = "ERC-20 Token"

\* C28: the transaction is destination-eligible exactly when a transfer in
\* some position has a recipient among the addresses stored at the moment
\* the call reads them, however late they were provisioned.
C28_EligibleIffSomeRecipientStored ==
    [][\A v \in VCalls :
          (vcall[v].pc = "addresses" /\ vcall'[v] # vcall[v]) =>
             (vcall'[v].is_destination_our_address <=>
                 \E i \in 1..Len(vcall[v].transfers) :
                    Custodied(vcall[v].transfers[i].to_address))]_vars

\* a transaction mined before any address existed was accepted on an address
\* provisioned since, the recipient of a transfer that is not the first
C28_Witness ==
    \E v \in VCalls :
       /\ Returned(v) /\ Accepted(v)
       /\ vcall[v].is_destination_our_address
       /\ ~Custodied(vcall[v].transfers[1].to_address)
       /\ \E i \in 2..Len(vcall[v].transfers) :
             Custodied(vcall[v].transfers[i].to_address)

\* the asset of the last log of the receipt that decodes, else the native one
LastDecodedAsset(tx_receipt) ==
    LET decoded == SelectSeq(tx_receipt.logs, Decodes)
    IN IF decoded = <<>> THEN "ETH"
       ELSE decode_erc20_transfer_log(decoded[Len(decoded)]).asset

\* C29: the record stored for an accepted transaction has the recipient and
\* the value of the first extracted transfer and the primary asset of the
\* extraction, whichever transfer matched a stored address.
C29_RecordFromFirstTransfer ==
    [][\A v \in VCalls :
          (vcall[v].pc = "save" /\ vcall'[v].pc = "done") =>
             /\ Len(validated') = Len(validated) + 1
             /\ LET row == validated'[Len(validated')]
                IN /\ row.tx_hash = vcall[v].tx_hash
                   /\ row.to_address = vcall[v].transfers[1].to_address
                   /\ row.value = vcall[v].transfers[1].value
                   /\ row.asset = LastDecodedAsset(vcall[v].tx_receipt)
                   /\ row.is_valid]_vars

\* a stored record of three transfers: the second matched a stored address,
\* the record has the recipient of the first, which is not stored, the value
\* of the first and the asset of the last
C29_Witness ==
    \E v \in VCalls :
       /\ Returned(v) /\ vcall[v].saved
       /\ Len(vcall[v].transfers) = 3
       /\ Custodied(vcall[v].transfers[2].to_address)
       /\ \E i \in RecordsOf(vcall[v].tx_hash) :
             /\ validated[i].to_address = vcall[v].transfers[1].to_address
             /\ ~Custodied(validated[i].to_address)
             /\ validated[i].value = vcall[v].transfers[1].value
             /\ validated[i].asset = vcall[v].transfers[3].asset
             /\ validated[i].asset # vcall[v].transfers[1].asset

\* the step in which a call that found no stored record builds its result
BuildsResult(v) ==
    /\ vcall[v].pc \in {"addresses", "block"}
    /\ "result" \in DOMAIN vcall'[v]

\* C30 as stated: the confirmation count of the result is the current
\* height minus the block of the receipt, for a failed receipt as well.
C30_DepthForEveryReceipt ==
    [][\A v \in VCalls :
          BuildsResult(v) =>
             vcall'[v].result.confirmations =
                height - vcall'[v].tx_receipt.blockNumber]_vars

\* C30 amended: for a receipt with status success the confirmation count of
\* the result is the current height minus the block of the receipt; for a
\* failed receipt the height is not read and the count of the result is 0.
C30_DepthForSuccessZeroForFailure ==
    [][\A v \in VCalls :
          BuildsResult(v) =>
             IF vcall'[v].tx_receipt.status = 1
             THEN /\ vcall'[v].current_block = height
                  /\ vcall'[v].result.confirmations =
                        height - vcall'[v].tx_receipt.blockNumber
             ELSE /\ "current_block" \notin DOMAIN vcall'[v]
                  /\ vcall'[v].result.confirmations = 0]_vars

\* a failed receipt thirteen blocks deep was reported with 0 confirmations
C30_Witness ==
    \E v \in VCalls :
       /\ Returned(v)
       /\ vcall[v].tx_receipt.status = 0
       /\ vcall[v].result.tx_status = "failed"
       /\ vcall[v].result.confirmations = 0
       /\ height - vcall[v].tx_receipt.blockNumber = 13

(***************************************************************************)
(* Properties of the responses                                              *)
(***************************************************************************)
\* the key that the other run generated where this run generated k
OtherKeyName == <<"j1", "j2", "j3", "j4">>

OtherKey(k) ==
    IF \E i \in 1..Len(KeyName) : KeyName[i] = k
    THEN OtherKeyName[CHOOSE i \in 1..Len(KeyName) : KeyName[i] = k]
    ELSE k

\* an address entity, a text, and an outcome of the other run
OtherAddress(a) == [a EXCEPT !.private_key = OtherKey(@)]

OtherText(text) == [i \in 1..Len(text) |-> OtherKey(text[i])]

OtherOutcome(outcome) ==
    IF outcome.ok
    THEN [outcome EXCEPT
             !.value = [i \in 1..Len(outcome.value) |-> OtherAddress(outcome.value[i])]]
    ELSE [outcome EXCEPT !.text = OtherText(@)]

OtherRows(rows) == [i \in 1..Len(rows) |-> OtherAddress(rows[i])]

\* C24: a run that differs from this one only in the private keys of the
\* generated addresses gets the same responses from address generation and
\* from address listing.
C24_ResponsesIgnorePrivateKeys ==
    /\ \A p \in PCalls :
          "outcome" \in DOMAIN pcall[p] =>
             generate_addresses(pcall[p].outcome) =
                generate_addresses(OtherOutcome(pcall[p].outcome))
    /\ list_addresses(addresses) = list_addresses(OtherRows(addresses))

\* a well-formed Transfer event: the event topic, the two indexed addresses
\* and an amount that reads as a hexadecimal number
IsTransferEvent(log) ==
    /\ Len(log.topics) >= 3
    /\ log.topics[1] = TRANSFER_EVENT_TOPIC
    /\ log.data.hex

\* C31: whatever logs the receipt has, the read of the receipt is followed
\* by the extraction and not by a failure; a log that is malformed or of
\* another event gives no transfer, and every well-formed Transfer log, before
\* or after it, gives its transfer.
C31_UndecodableLogSkipped ==
    [][\A v \in VCalls :
          (/\ vcall[v].pc = "receipt" /\ vcall'[v] # vcall[v]
           /\ vcall[v].tx_details.present
           /\ get_transaction_receipt(vcall[v].tx_hash).present) =>
             LET logs == get_transaction_receipt(vcall[v].tx_hash).logs
                 good == {i \in 1..Len(logs) : IsTransferEvent(logs[i])}
                 tokens == IF vcall'[v].transfers # <<>>
                              /\ vcall'[v].transfers[1].asset = "ETH"
                           THEN Tail(vcall'[v].transfers)
                           ELSE vcall'[v].transfers
             IN /\ vcall'[v].pc = "addresses"
                /\ Len(tokens) = Cardinality(good)
                /\ \A i \in good :
                      tokens[Cardinality({j \in good : j <= i})].to_address =
                         logs[i].topics[3]]_vars

\* a receipt of four logs: the second is malformed, the third is of another
\* event, and the first and the fourth gave their transfers
C31_Witness ==
    \E v \in VCalls :
       /\ Returned(v)
       /\ Len(vcall[v].tx_receipt.logs) = 4
       /\ ~IsTransferEvent(vcall[v].tx_receipt.logs[2])
       /\ ~IsTransferEvent(vcall[v].tx_receipt.logs[3])
       /\ Len(vcall[v].transfers) = 2
       /\ vcall[v].transfers[1].to_address = vcall[v].tx_receipt.logs[1].topics[3]
       /\ vcall[v].transfers[2].to_address = vcall[v].tx_receipt.logs[4].topics[3]

\* the call has stored the record of its hash
StoredBy(v) == Returned(v) /\ vcall[v].saved

\* C34: the to_address of a stored record is an address that was stored
\* when the call validated the transaction.
C34_RecordRecipientCustodied ==
    \A v \in VCalls :
       StoredBy(v) =>
          \A i \in RecordsOf(vcall[v].tx_hash) :
             \E j \in 1..Len(vcall[v].our_addresses) :
                validated[i].to_address = vcall[v].our_addresses[j]

\* C35: asset, to_address and value of a stored record are those of one of
\* the transfers extracted from the transaction.
C35_RecordIsOneTransfer ==
    \A v \in VCalls :
       StoredBy(v) =>
          \A i \in RecordsOf(vcall[v].tx_hash) :
             \E k \in 1..Len(vcall[v].transfers) :
                /\ validated[i].asset = vcall[v].transfers[k].asset
                /\ validated[i].to_address = vcall[v].transfers[k].to_address
                /\ validated[i].value = vcall[v].transfers[k].value

\* the call rejected a successful transaction to a stored address for the
\* one reason that it was less than 12 blocks deep
RejectedForDepth(q) ==
    /\ Returned(q) /\ ~Accepted(q)
    /\ SawSuccess(q) /\ SawOurRecipient(q)
    /\ SawDepth(q) < 12

\* C39: a call that rejects for want of depth stores nothing; and with such
\* a rejection of the hash made, a call that reads a height at least 12 above
\* the block of the successful receipt, and a stored recipient, accepts and
\* stores the record.
C39_RejectionNotSticky ==
    [][\A v \in VCalls :
          /\ (vcall[v].pc = "block" /\ vcall'[v] # vcall[v]) =>
                LET depth == height - vcall[v].tx_receipt.blockNumber
                IN /\ depth < 12 =>
                         /\ vcall'[v].pc = "done"
                         /\ ~vcall'[v].result.is_valid_and_safe_for_credit
                         /\ validated' = validated
                   /\ (/\ depth >= 12
                       /\ vcall[v].is_destination_our_address
                       /\ \E q \in VCalls : /\ RejectedForDepth(q)
                                            /\ vcall[q].tx_hash = vcall[v].tx_hash) =>
                         /\ vcall'[v].pc = "save"
                         /\ vcall'[v].result.is_valid_and_safe_for_credit
          /\ (/\ vcall[v].pc = "save" /\ vcall'[v] # vcall[v]
              /\ RecordsOf(vcall[v].tx_hash) = {}) =>
                /\ vcall'[v].pc = "done"
                /\ \E i \in 1..Len(validated') :
                      validated'[i].tx_hash = vcall[v].tx_hash]_vars

\* the hash was rejected at depth 11, and a later call at depth 12 or more
\* has accepted it and stored its record
C39_Witness ==
    \E v, q \in VCalls :
       /\ RejectedForDepth(q) /\ SawDepth(q) = 11
       /\ StoredBy(v) /\ vcall[v].tx_hash = vcall[q].tx_hash
       /\ SawDepth(v) >= 12
       /\ RecordsOf(vcall[v].tx_hash) # {}

(***************************************************************************)
(* Further properties of reconcile                                          *)
(***************************************************************************)
\* the record as the call found it in the store
FoundBy(r) == IF rcall[r].pc = "receipt" THEN rcall[r].tx_record ELSE rcall[r].read

\* C36: the record that a reconcile call returns is the record that the
\* store holds when the call returns; stated for a call during which no
\* other call has changed the record.
C36_ReturnedIsPersisted ==
    [][\A r \in RCalls :
          (/\ rcall[r].pc \in {"receipt", "update"} /\ rcall'[r].pc = "done"
           /\ created[FoundBy(r).id] = FoundBy(r)) =>
             rcall'[r].result = created'[rcall'[r].result.id]]_vars

\* C37: a record with an effective cost has status confirmed.
C37_CostOnlyWhenConfirmed ==
    \A i \in 1..Len(created) :
       ~created[i].effective_cost_wei.null => created[i].status = "confirmed"

\* C32: the record that a failed create left pending and without hash is
\* moved to failed by the reconcile calls.
C32_OrphanDiscovered ==
    <>(\E i \in 1..Len(created) :
          created[i].tx_hash.null /\ created[i].status = "failed")

\* C38: if from some time on the chain returns a receipt for h1, the record
\* that create returned with the hash h1 becomes confirmed or failed.
C38_SentRecordSettles ==
    (<>[](receipts["h1"].present)) =>
        <>(\E i \in 1..Len(created) :
              /\ created[i].tx_hash = Some("h1")
              /\ created[i].status \in {"confirmed", "failed"})

\* a reconcile call has just written the status that the receipt of h1 gives
C38_Witness ==
    \E r \in RCalls, i \in 1..Len(created) :
       /\ rcall[r].pc = "done" /\ rcall[r].wrote
       /\ rcall[r].tx_hash = Some("h1")
       /\ receipts["h1"].present
       /\ created[i].tx_hash = Some("h1")
       /\ created[i].status =
             IF receipts["h1"].status = 1 THEN "confirmed" ELSE "failed"
       /\ created[i].status = rcall[r].result.status

(***************************************************************************)
(* Properties of the chain calls inside one request                         *)
(***************************************************************************)
\* the position of a step in its use case; every step that talks to the
\* chain client has a position of its own
CRank(pc) ==
    CASE pc = "idle" -> 0 [] pc = "save" -> 1 [] pc = "sign" -> 2
      [] pc = "send" -> 3 [] pc = "update" -> 4 [] OTHER -> 5

VRank(pc) ==
    CASE pc = "idle" -> 0 [] pc = "details" -> 1 [] pc = "receipt" -> 2
      [] pc = "addresses" -> 3 [] pc = "block" -> 4 [] pc = "save" -> 5
      [] OTHER -> 6

RRank(pc) ==
    CASE pc = "idle" -> 0 [] pc = "receipt" -> 1 [] pc = "update" -> 2
      [] OTHER -> 3

\* the requests the chain client got for the record id, by operation
NetCalls(log, op, id) == {i \in 1..Len(log) : log[i].op = op /\ log[i].id = id}

=============================================================================
